---- MODULE Spec2Model ----
(***************************************************************************)
(* Walk-time reachability engine of src/src/walk_times:                    *)
(*   graph_utils.py  get_node_mapping, nx_to_rustworkx,                    *)
(*                   convert_node_ids_to_rx_indices                        *)
(*   algorithms.py   bounded_dijkstra, _process_single_center_node,        *)
(*                   calculate_walk_times_parallel                         *)
(*   calculate.py    add_time_attributes, calculate_walk_times (get_lands) *)
(*                                                                         *)
(* Times are the code's floats in minutes, held here as integers in tenths *)
(* of a minute (1.4 minutes is 14); lengths are in metres.  Node ids are   *)
(* the external (OSM) ids, indices are the zero-based rustworkx indices.   *)
(***************************************************************************)
EXTENDS Integers, Sequences, FiniteSets, TLC

(***************************************************************************)
(* Bounds of the explored inputs.                                          *)
(***************************************************************************)
MaxCenters == 2
MaxLands == 3
MaxTripTimes == 2
MaxSearchEdges == 3

\* a distance no path of the explored graphs reaches (unreachable)
Infinity == 100000

\* the "no value" marker (Python None / an absent attribute)
NoneVal == 0 - 1

(***************************************************************************)
(* Sequence helpers.                                                       *)
(***************************************************************************)
Range(s) == {s[i] : i \in 1..Len(s)}

RECURSIVE Flatten(_)
Flatten(ss) == IF ss = <<>> THEN <<>> ELSE Head(ss) \o Flatten(Tail(ss))

\* all sequences over S of length at most n
SeqsUpTo(S, n) == UNION {[1..k -> S] : k \in 0..n}

SetMin(S) == CHOOSE x \in S : \A y \in S : x <= y
SetMax(S) == CHOOSE x \in S : \A y \in S : x >= y

RECURSIVE InsertDesc(_, _)
InsertDesc(x, s) ==
    IF s = <<>> THEN <<x>>
    ELSE IF x >= Head(s) THEN <<x>> \o s
    ELSE <<Head(s)>> \o InsertDesc(x, Tail(s))

RECURSIVE InsertAsc(_, _)
InsertAsc(x, s) ==
    IF s = <<>> THEN <<x>>
    ELSE IF x < Head(s) THEN <<x>> \o s
    ELSE <<Head(s)>> \o InsertAsc(x, Tail(s))

RECURSIVE SortInto(_, _, _)
SortInto(s, acc, reverse) ==
    IF s = <<>> THEN acc
    ELSE SortInto(Tail(s),
                  IF reverse THEN InsertDesc(Head(s), acc) ELSE InsertAsc(Head(s), acc),
                  reverse)

\* the list left in the order it was given
unsorted(xs, reverse) == xs

\* Python sorted(xs) / sorted(xs, reverse=True)
sorted(xs, reverse) == SortInto(xs, <<>>, reverse)

(***************************************************************************)
(* graph_utils.py                                                          *)
(***************************************************************************)
\* An nx graph is [nodes |-> sequence of ids in iteration order,
\*                 edges |-> sequence of [u, v, time, length] in iteration order].
\* A time of NoneVal is an edge without a usable "time" attribute.

\* enumerate(nx_graph.nodes(), start=1): the i-th id gets index i
get_node_mapping_from_one(nx_graph) ==
    [nx_id_to_rx_idx |-> [id \in Range(nx_graph.nodes) |->
                            CHOOSE i \in 1..Len(nx_graph.nodes) : nx_graph.nodes[i] = id],
     rx_idx_to_nx_id |-> [idx \in 1..Len(nx_graph.nodes) |-> nx_graph.nodes[idx]]]

\* get_node_mapping: enumerate(nx_graph.nodes()) gives index i-1 to the i-th id
get_node_mapping(nx_graph) ==
    [nx_id_to_rx_idx |-> [id \in Range(nx_graph.nodes) |->
                            (CHOOSE i \in 1..Len(nx_graph.nodes) : nx_graph.nodes[i] = id) - 1],
     rx_idx_to_nx_id |-> [idx \in 0..(Len(nx_graph.nodes) - 1) |-> nx_graph.nodes[idx + 1]]]

\* default_weight=1.0 of nx_to_rustworkx
DefaultWeight == 10

\* a conversion that looks the weight up by node pair: every edge of a
\* pair gets the weight of the pair's first edge
nx_to_rustworkx_edges_shared_weight(nx_graph, nx_id_to_rx_idx) ==
    [k \in 1..Len(nx_graph.edges) |->
        LET e == nx_graph.edges[k]
            first == CHOOSE j \in 1..Len(nx_graph.edges) :
                        /\ nx_graph.edges[j].u = e.u /\ nx_graph.edges[j].v = e.v
                        /\ \A i \in 1..(j - 1) :
                               ~(nx_graph.edges[i].u = e.u /\ nx_graph.edges[i].v = e.v)
            f == nx_graph.edges[first]
        IN  <<nx_id_to_rx_idx[e.u], nx_id_to_rx_idx[e.v],
              IF f.time # NoneVal THEN f.time ELSE DefaultWeight>>]

\* nx_to_rustworkx: one rx edge <<rx_u, rx_v, weight>> per nx edge, in order
nx_to_rustworkx_edges(nx_graph, nx_id_to_rx_idx) ==
    [k \in 1..Len(nx_graph.edges) |->
        LET e == nx_graph.edges[k]
        IN  <<nx_id_to_rx_idx[e.u], nx_id_to_rx_idx[e.v],
              IF e.time # NoneVal THEN e.time ELSE DefaultWeight>>]

\* a counter that only counts the first edge without a weight
edges_skipped_once(nx_graph) ==
    IF \E k \in 1..Len(nx_graph.edges) : nx_graph.edges[k].time = NoneVal THEN 1 ELSE 0

\* nx_to_rustworkx: edges_skipped, incremented in the else branch of the
\* weight test, once per edge that gets the default weight
RECURSIVE edges_skipped_from(_, _)
edges_skipped_from(nx_graph, k) ==
    IF k > Len(nx_graph.edges) THEN 0
    ELSE (IF nx_graph.edges[k].time # NoneVal THEN 0 ELSE 1)
            + edges_skipped_from(nx_graph, k + 1)

edges_skipped(nx_graph) == edges_skipped_from(nx_graph, 1)

\* the positions of the edges from index a to index b
EdgesBetween(edges, a, b) ==
    {k \in 1..Len(edges) : edges[k][1] = a /\ edges[k][2] = b}

ConnectedPairs(edges) == {<<edges[k][1], edges[k][2]>> : k \in 1..Len(edges)}

\* PyDiGraph.get_edge_data(a, b) returns the data of ONE edge from a to b
\* ("if there are multiple edges between the nodes only one will be
\* returned"); which one is the library's choice.  find_edge is that choice:
\* for every connected pair, the position of the edge the lookup finds.
FindEdgeChoices(edges) ==
    {f \in [ConnectedPairs(edges) -> 1..Len(edges)] :
        \A p \in ConnectedPairs(edges) : f[p] \in EdgesBetween(edges, p[1], p[2])}

\* nx_to_rustworkx: the rx graph and both maps
nx_to_rustworkx(nx_graph, find_edge) ==
    LET m == get_node_mapping(nx_graph)
    IN  [rx_graph |-> [num_nodes |-> Len(nx_graph.nodes),
                       edges |-> nx_to_rustworkx_edges(nx_graph, m.nx_id_to_rx_idx),
                       find_edge |-> find_edge],
         nx_id_to_rx_idx |-> m.nx_id_to_rx_idx,
         rx_idx_to_nx_id |-> m.rx_idx_to_nx_id]

\* a conversion that keeps a place for every id: None for an id that is
\* not in the map
RECURSIVE convert_node_ids_to_rx_indices_padded(_, _)
convert_node_ids_to_rx_indices_padded(node_ids, nx_id_to_rx_idx) ==
    IF node_ids = <<>> THEN <<>>
    ELSE <<IF Head(node_ids) \in DOMAIN nx_id_to_rx_idx
           THEN nx_id_to_rx_idx[Head(node_ids)] ELSE NoneVal>>
         \o convert_node_ids_to_rx_indices_padded(Tail(node_ids), nx_id_to_rx_idx)

\* convert_node_ids_to_rx_indices: the indices of the ids found, missing ids skipped
RECURSIVE convert_node_ids_to_rx_indices(_, _)
convert_node_ids_to_rx_indices(node_ids, nx_id_to_rx_idx) ==
    IF node_ids = <<>> THEN <<>>
    ELSE IF Head(node_ids) \in DOMAIN nx_id_to_rx_idx
         THEN <<nx_id_to_rx_idx[Head(node_ids)]>>
                \o convert_node_ids_to_rx_indices(Tail(node_ids), nx_id_to_rx_idx)
         ELSE convert_node_ids_to_rx_indices(Tail(node_ids), nx_id_to_rx_idx)

(***************************************************************************)
(* rustworkx PyDiGraph reads used by the search.                           *)
(***************************************************************************)
\* successor_indices(node): one entry per outgoing edge (parallel edges
\* repeat the successor), most recently added edge first
RECURSIVE successor_indices_from(_, _, _)
successor_indices_from(edges, node, k) ==
    IF k = 0 THEN <<>>
    ELSE IF edges[k][1] = node
         THEN <<edges[k][2]>> \o successor_indices_from(edges, node, k - 1)
         ELSE successor_indices_from(edges, node, k - 1)

successor_indices(rx_graph, node) ==
    successor_indices_from(rx_graph.edges, node, Len(rx_graph.edges))

get_edge_data(rx_graph, a, b) == rx_graph.edges[rx_graph.find_edge[<<a, b>>]][3]

(***************************************************************************)
(* algorithms.py: bounded_dijkstra, one step of its loops at a time.       *)
(*                                                                         *)
(* A search state is [distances, visited, pq, phase, current_dist,         *)
(* current_node, neighbors]: distances is the dict (a function on its      *)
(* keys), pq the heap's entries <<distance, node>>, neighbors the part of  *)
(* successor_indices(current_node) the for loop has not reached yet.       *)
(* phase is "pop" at the top of the while loop, "relax" inside the for     *)
(* loop and "done" after the loop.                                         *)
(***************************************************************************)
\* tuple order of the heap entries: by distance, then by node index
EntryLess(a, b) == a[1] < b[1] \/ (a[1] = b[1] /\ a[2] < b[2])

\* position of the entry heapq.heappop returns: the smallest tuple
HeapMinPos(pq) ==
    CHOOSE i \in 1..Len(pq) :
        \A j \in 1..Len(pq) : j # i => (EntryLess(pq[i], pq[j]) \/ (pq[i] = pq[j] /\ i < j))

RemoveAt(s, i) == SubSeq(s, 1, i - 1) \o SubSeq(s, i + 1, Len(s))

DictSet(d, k, v) == [x \in (DOMAIN d) \cup {k} |-> IF x = k THEN v ELSE d[x]]

\* lines 43-45
SearchInit(source) ==
    [distances |-> [x \in {source} |-> 0],
     visited |-> {},
     pq |-> << <<0, source>> >>,
     phase |-> "pop",
     current_dist |-> 0,
     current_node |-> source,
     neighbors |-> <<>>,
     expanded |-> NoneVal]

\* a pass without the test of line 51: an entry of a node visited before
\* is expanded again
PopStepRevisiting(rx_graph, max_distance, st) ==
    IF st.pq = <<>>
    THEN [st EXCEPT !.phase = "done", !.expanded = NoneVal]
    ELSE LET i == HeapMinPos(st.pq)
             current_dist == st.pq[i][1]
             current_node == st.pq[i][2]
             rest == RemoveAt(st.pq, i)
         IN  IF current_dist > max_distance
             THEN [st EXCEPT !.pq = rest, !.phase = "done", !.expanded = NoneVal]
             ELSE LET succ == successor_indices(rx_graph, current_node)
                  IN  [st EXCEPT !.pq = rest,
                                 !.visited = @ \cup {current_node},
                                 !.current_dist = current_dist,
                                 !.current_node = current_node,
                                 !.neighbors = succ,
                                 !.expanded = current_node,
                                 !.phase = IF succ = <<>> THEN "pop" ELSE "relax"]

\* lines 47-58 and 61: the loop test, the pop, the two early exits, the
\* visit and the read of the successors.  expanded is the node whose
\* successors this pass has read, NoneVal when it has read none.
PopStep(rx_graph, max_distance, st) ==
    IF st.pq = <<>>
    THEN [st EXCEPT !.phase = "done", !.expanded = NoneVal]
    ELSE LET i == HeapMinPos(st.pq)
             current_dist == st.pq[i][1]
             current_node == st.pq[i][2]
             rest == RemoveAt(st.pq, i)
         IN  IF current_node \in st.visited
             THEN [st EXCEPT !.pq = rest, !.expanded = NoneVal]
             ELSE IF current_dist > max_distance
             THEN [st EXCEPT !.pq = rest, !.phase = "done", !.expanded = NoneVal]
             ELSE LET succ == successor_indices(rx_graph, current_node)
                  IN  [st EXCEPT !.pq = rest,
                                 !.visited = @ \cup {current_node},
                                 !.current_dist = current_dist,
                                 !.current_node = current_node,
                                 !.neighbors = succ,
                                 !.expanded = current_node,
                                 !.phase = IF succ = <<>> THEN "pop" ELSE "relax"]

\* lines 61-73: one iteration of the for loop over the successors
RelaxStep(rx_graph, max_distance, st) ==
    LET neighbor == Head(st.neighbors)
        edge_data == get_edge_data(rx_graph, st.current_node, neighbor)
        new_dist == st.current_dist + edge_data
        left == Tail(st.neighbors)
        after == [st EXCEPT !.neighbors = left,
                            !.phase = IF left = <<>> THEN "pop" ELSE "relax"]
    IN  IF new_dist <= max_distance
           /\ (neighbor \notin DOMAIN st.distances \/ new_dist < st.distances[neighbor])
        THEN [after EXCEPT !.distances = DictSet(st.distances, neighbor, new_dist),
                           !.pq = Append(st.pq, <<new_dist, neighbor>>)]
        ELSE after

SearchStep(rx_graph, max_distance, st) ==
    IF st.phase = "pop" THEN PopStep(rx_graph, max_distance, st)
    ELSE RelaxStep(rx_graph, max_distance, st)

RECURSIVE RunSearch(_, _, _)
RunSearch(rx_graph, max_distance, st) ==
    IF st.phase = "done" THEN st.distances
    ELSE RunSearch(rx_graph, max_distance, SearchStep(rx_graph, max_distance, st))

\* bounded_dijkstra(graph, source, max_distance): the returned dict
bounded_dijkstra(rx_graph, source, max_distance) ==
    RunSearch(rx_graph, max_distance, SearchInit(source))

(***************************************************************************)
(* calculate.py / algorithms.py: the per-origin work.                      *)
(***************************************************************************)
\* A dict is held as the sequence of its <<key, value>> items in insertion
\* order.  d[k] = v: an existing key keeps its place and takes the new value.
DictPut(d, k, v) ==
    IF \E i \in 1..Len(d) : d[i][1] = k
    THEN [i \in 1..Len(d) |-> IF d[i][1] = k THEN <<k, v>> ELSE d[i]]
    ELSE Append(d, <<k, v>>)

Min(a, b) == IF a <= b THEN a ELSE b

\* {rx_idx: nx_id for nx_id, rx_idx in zip(conserved_land_nx_ids,
\*  conserved_land_rx_indices) if rx_idx is not None}: zip pairs the two
\* lists position by position and stops at the shorter one
RECURSIVE ZipLandDict(_, _, _, _)
ZipLandDict(nx_ids, rx_indices, k, d) ==
    IF k > Min(Len(nx_ids), Len(rx_indices)) THEN d
    ELSE ZipLandDict(nx_ids, rx_indices, k + 1,
                     IF rx_indices[k] # NoneVal
                     THEN DictPut(d, rx_indices[k], nx_ids[k]) ELSE d)

\* calculate.py 174-184 and algorithms.py 174-184
conserved_land_mapping(conserved_land_nx_ids, nx_id_to_rx_idx) ==
    ZipLandDict(conserved_land_nx_ids,
                convert_node_ids_to_rx_indices(conserved_land_nx_ids, nx_id_to_rx_idx),
                1, <<>>)

\* for trip_time in sorted_trip_times: if distance <= trip_time: ...; break
\* the first threshold of the list the distance fits, NoneVal when none does
RECURSIVE FirstFit(_, _)
FirstFit(distance, times) ==
    IF times = <<>> THEN NoneVal
    ELSE IF distance <= Head(times) THEN Head(times)
    ELSE FirstFit(distance, Tail(times))

\* the loop over conserved_land_rx_to_nx.items() of get_lands (219-228) and
\* of _process_single_center_node (120-127)
RECURSIVE LandRecords(_, _, _, _)
LandRecords(center_node, land_items, distances, times) ==
    IF land_items = <<>> THEN <<>>
    ELSE LET land_rx_idx == Head(land_items)[1]
             land_nx_id == Head(land_items)[2]
             rest == LandRecords(center_node, Tail(land_items), distances, times)
         IN  IF land_rx_idx \in DOMAIN distances
                /\ FirstFit(distances[land_rx_idx], times) # NoneVal
             THEN << <<center_node, land_nx_id,
                       FirstFit(distances[land_rx_idx], times)>> >> \o rest
             ELSE rest

\* get_lands without its membership test: an id that is not in the map is
\* searched from index 0
get_lands_unchecked(center_node, rxg, id_to_idx, land_items, times, max_time, faults) ==
    LET source == IF center_node \in DOMAIN id_to_idx THEN id_to_idx[center_node] ELSE 0
    IN  IF source \in faults THEN <<>>
        ELSE LandRecords(center_node, land_items,
                         bounded_dijkstra(rxg, source, max_time), times)

\* calculate_walk_times.get_lands(center_node).  faults are the source
\* indices for which the bounded_dijkstra call raises: the try/except of
\* 207-216 logs a warning and returns []
get_lands(center_node, rxg, id_to_idx, land_items, times, max_time, faults) ==
    IF center_node \notin DOMAIN id_to_idx THEN <<>>
    ELSE IF id_to_idx[center_node] \in faults THEN <<>>
    ELSE LandRecords(center_node, land_items,
                     bounded_dijkstra(rxg, id_to_idx[center_node], max_time), times)

\* a worker whose except branch hands back what the failed search had so
\* far: the source at distance 0
process_single_center_node_partial(center_node, rxg, nx_to_rx, land_items, times, max_time, faults) ==
    IF center_node \notin DOMAIN nx_to_rx THEN <<>>
    ELSE IF nx_to_rx[center_node] \in faults
    THEN LandRecords(center_node, land_items, SearchInit(nx_to_rx[center_node]).distances, times)
    ELSE LandRecords(center_node, land_items,
                     bounded_dijkstra(rxg, nx_to_rx[center_node], max_time), times)

\* _process_single_center_node(center_node, ...), with the try/except of
\* 113-118 around its bounded_dijkstra call
process_single_center_node(center_node, rxg, nx_to_rx, land_items, times, max_time, faults) ==
    IF center_node \notin DOMAIN nx_to_rx THEN <<>>
    ELSE IF nx_to_rx[center_node] \in faults THEN <<>>
    ELSE LandRecords(center_node, land_items,
                     bounded_dijkstra(rxg, nx_to_rx[center_node], max_time), times)

\* calculate.py 187: sorted(trip_times, reverse=True)
serial_sorted_trip_times(times) == sorted(times, TRUE)

\* the thresholds sorted the other way round
descending_trip_times(times) == sorted(times, TRUE)

\* algorithms.py 186: sorted(trip_times)
parallel_sorted_trip_times(times) == sorted(times, FALSE)

\* max(trip_times, default=0): no exception for an empty list
max_of_default(times) == IF times = <<>> THEN 0 ELSE SetMax(Range(times))

\* max(trip_times); NoneVal stands for the ValueError max() raises for an
\* empty list
max_of(times) == IF times = <<>> THEN NoneVal ELSE SetMax(Range(times))

\* DEFAULT_TRAVEL_SPEED, 4.5 km/h, in metres per hour
TravelSpeed == 4500

\* an add_time_attributes that adds the walking time of the length to the
\* time the edge has already
add_time_attributes_accumulating(nx_graph, travel_speed) ==
    [nx_graph EXCEPT !.edges =
        [k \in 1..Len(nx_graph.edges) |->
            IF nx_graph.edges[k].length # NoneVal
            THEN [nx_graph.edges[k] EXCEPT !.time =
                     (IF @ = NoneVal THEN 0 ELSE @) + (nx_graph.edges[k].length * 600) \div travel_speed]
            ELSE nx_graph.edges[k]]]

\* add_time_attributes: time = length / (travel_speed * 1000 / 60), for the
\* edges that have a length; in tenths of a minute that is length*600/speed
add_time_attributes(nx_graph, travel_speed) ==
    [nx_graph EXCEPT !.edges =
        [k \in 1..Len(nx_graph.edges) |->
            IF nx_graph.edges[k].length # NoneVal
            THEN [nx_graph.edges[k] EXCEPT !.time = (nx_graph.edges[k].length * 600) \div travel_speed]
            ELSE nx_graph.edges[k]]]

\* calculate.py 134-138: the first edge decides whether times are added
ensure_time_attributes(nx_graph) ==
    IF nx_graph.edges[1].time = NoneVal
    THEN add_time_attributes(nx_graph, TravelSpeed)
    ELSE nx_graph

(***************************************************************************)
(* State.                                                                  *)
(***************************************************************************)
VARIABLES
    graph,                    \* the caller's nx graph (mutated by add_time_attributes)
    center_nodes,             \* argument: list of origin ids
    conserved_lands,          \* argument: the "osmid" column, list of target ids
    trip_times,               \* argument: list of thresholds
    n_jobs,                   \* argument: worker count
    cpu_count,                \* what multiprocessing.cpu_count() returns
    progress_bar,             \* argument: imap behind tqdm (TRUE) or map (FALSE)
    entry,                    \* the function the caller calls
    task_faults,              \* origin positions at which worker_func raises
    search_faults,            \* source indices for which bounded_dijkstra raises
    pc,                       \* position in the call (or in the search, under SpecSearch)
    rx_graph,                 \* the converted graph
    nx_id_to_rx_idx,          \* id -> index
    rx_idx_to_nx_id,          \* index -> id
    conserved_land_rx_to_nx,  \* the target dict, as its items
    sorted_trip_times,
    max_trip_time,
    next_center,              \* serial path: position of the next origin to process
    records,                  \* serial path: the records collected so far
    results_list,             \* parallel path: per origin position, its task's result
    pending,                  \* parallel path: the origin positions without a result yet
    queued,                   \* parallel path: the chunks no worker has taken yet
    running,                  \* parallel path: the chunks a worker is processing
    failed,                   \* parallel path: the chunks whose task raised
    assigned,                 \* parallel path: per origin position, the tasks it was given to
    workers,                  \* parallel path: the processes of the Pool, 0 without a pool
    returned,                 \* the rows of the returned DataFrame
    exception,                \* the exception that left the call, "" when none
    search,                   \* a bounded_dijkstra call: its local state
    search_source,            \* its source argument
    search_max,               \* its max_distance argument
    search_result,            \* the dict it returned (pc = "search_returned")
    expansions,               \* per node, how often the search entered its successor loop
    first_returned,           \* the rows the previous call on the same inputs returned
    call_no,                  \* 1 in the first call on the inputs, 2 in the repeated one
    cache,                    \* _rx_graph_cache
    first_graph,              \* per key, the graph of the first call made with that key
    conversions,              \* how often nx_to_rustworkx has run
    call                      \* the last call of a graph utility: arguments and result

vars == <<graph, center_nodes, conserved_lands, trip_times, n_jobs, progress_bar, entry,
          task_faults, search_faults, pc, rx_graph,
          nx_id_to_rx_idx, rx_idx_to_nx_id, conserved_land_rx_to_nx,
          sorted_trip_times, max_trip_time, next_center, records, results_list,
          pending, queued, running, failed, assigned,
          returned, exception, search, search_source, search_max, search_result,
          cpu_count, workers, expansions, first_returned, call_no, cache, first_graph,
          conversions, call>>

inputVars == <<center_nodes, conserved_lands, trip_times, n_jobs, progress_bar, entry,
               task_faults, search_faults, cpu_count>>
poolVars == <<queued, running, failed, assigned, workers>>
utilVars == <<cache, first_graph, conversions, call>>
repeatVars == <<first_returned, call_no>>
preparedVars == <<rx_graph, nx_id_to_rx_idx, rx_idx_to_nx_id, conserved_land_rx_to_nx,
                  sorted_trip_times, max_trip_time>>
searchVars == <<search, search_source, search_max, search_result, expansions>>

EmptyRxGraph == [num_nodes |-> 0, edges |-> <<>>, find_edge |-> <<>>]

(***************************************************************************)
(* Inputs of calculate_walk_times.                                         *)
(***************************************************************************)
\* ids of the nodes of the generated graphs, in iteration order; 99 is an id
\* that is in no graph
GraphIds == <<12, 11, 13>>

Edge(u, v, time, length) == [u |-> u, v |-> v, time |-> time, length |-> length]

\* the edges the generated graphs are made of: two parallel edges 11 -> 12
\* of different times, and 12 -> 13
EdgePool == << Edge(11, 12, 10, 75), Edge(11, 12, 30, 225), Edge(12, 13, 10, 75) >>

RECURSIVE SubSeqOf(_, _, _)
SubSeqOf(s, keep, k) ==
    IF k > Len(s) THEN <<>>
    ELSE (IF k \in keep THEN <<s[k]>> ELSE <<>>) \o SubSeqOf(s, keep, k + 1)

\* nx.MultiDiGraph(): no node, no edge
EmptyGraph == [nodes |-> <<>>, edges |-> <<>>]

GeneratedGraphs ==
    {[nodes |-> GraphIds, edges |-> SubSeqOf(EdgePool, keep, 1)] :
        keep \in SUBSET (1..Len(EdgePool))}
    \cup {EmptyGraph}

CenterIds == {11, 12, 99}
LandIds == {12, 13, 99}
TripChoices == {20, 40}
NJobsChoices == {1, 2, 4}

NoRepeat(s) == \A i, j \in 1..Len(s) : s[i] = s[j] => i = j

\* the graph of the tests' sample_graph fixture (times 1.0, 1.0, 1.4, 1.4)
SampleGraph ==
    [nodes |-> <<1, 2, 3, 4>>,
     edges |-> << Edge(1, 2, 10, 100), Edge(2, 3, 10, 100),
                  Edge(2, 4, 14, 141), Edge(4, 3, 14, 141) >>]

\* no utility has been called, the module's cache is empty
InitUtil ==
    /\ cache = <<>>
    /\ first_graph = <<>>
    /\ conversions = 0
    /\ call = [op |-> "none", n |-> 0]

InitCall ==
    /\ rx_graph = EmptyRxGraph
    /\ nx_id_to_rx_idx = <<>>
    /\ rx_idx_to_nx_id = <<>>
    /\ conserved_land_rx_to_nx = <<>>
    /\ sorted_trip_times = <<>>
    /\ max_trip_time = NoneVal
    /\ next_center = 1
    /\ records = <<>>
    /\ results_list = <<>>
    /\ pending = {}
    /\ queued = {}
    /\ running = {}
    /\ failed = {}
    /\ assigned = <<>>
    /\ workers = 0
    /\ returned = <<>>
    /\ exception = ""
    /\ search = SearchInit(0)
    /\ search_source = 0
    /\ search_max = 0
    /\ search_result = <<>>
    /\ expansions = <<>>
    /\ first_returned = <<>>
    /\ call_no = 1
    /\ InitUtil

Init ==
    /\ \/ /\ graph \in GeneratedGraphs
          /\ center_nodes \in SeqsUpTo(CenterIds, MaxCenters)
          /\ conserved_lands \in {l \in SeqsUpTo(LandIds, MaxLands) : NoRepeat(l)}
          /\ trip_times \in SeqsUpTo(TripChoices, MaxTripTimes)
       \/ /\ graph = SampleGraph
          /\ center_nodes = <<1>>
          /\ conserved_lands = <<3, 4>>
          /\ trip_times = <<50, 100, 150>>
    /\ n_jobs \in NJobsChoices
    /\ cpu_count = 4
    /\ progress_bar = TRUE
    /\ entry = "calculate_walk_times"
    /\ task_faults = {}
    /\ search_faults = {}
    /\ pc = "start"
    /\ InitCall

(***************************************************************************)
(* calculate_walk_times, serial path (n_jobs = 1).                         *)
(***************************************************************************)
\* an exception leaves the call; g is the caller's graph as the call leaves it
Raise(name, g) ==
    /\ pc' = "raised"
    /\ exception' = name
    /\ graph' = g
    /\ UNCHANGED <<preparedVars, next_center, records, results_list, pending,
                   poolVars, returned>>

\* chunksize=10 of pool.imap / pool.map
ChunkSize == 10

\* the number of tasks the pool cuts n origins into
NumChunks(n) == (n + ChunkSize - 1) \div ChunkSize

\* chunks that share their boundary position
ChunkPositionsOverlapping(c, n) ==
    {i \in 1..n : (c - 1) * ChunkSize <= i /\ i <= c * ChunkSize}

\* the origin positions of chunk c: the pool slices the iterable in order,
\* ChunkSize items per task, the last task taking what is left
ChunkPositions(c, n) == {i \in 1..n : (i - 1) \div ChunkSize = c - 1}

\* n_jobs=None: no worker count given (a value no caller passes as a count)
NJobsNone == 0 - 1000

\* the processes argument of Pool(processes=n_jobs): calculate.py 144-145
\* turns -1 into cpu_count(), algorithms.py 157-158 turn None into
\* max(1, cpu_count() - 1); any other value is passed on as it is
pool_processes(called, jobs, cpus) ==
    LET passed == IF called = "calculate_walk_times" /\ jobs = 0 - 1 THEN cpus ELSE jobs
    IN  IF passed = NJobsNone
        THEN (IF cpus - 1 >= 1 THEN cpus - 1 ELSE 1)
        ELSE passed

\* what both paths set up before the first search: the conversion of the
\* graph g, the target dict, the sorted thresholds and their maximum;
\* origins is the number of origins handed to the pool (none on the serial path).
\* The library's edge lookup is a function of the graph it is asked about:
\* an edge list converted before gets the lookup it got before.
Prepare(g, times_sorted, next_pc, origins) ==
    LET m == get_node_mapping(g)
        edges == nx_to_rustworkx_edges(g, m.nx_id_to_rx_idx)
    IN  \E find_edge \in FindEdgeChoices(edges) :
            LET c == nx_to_rustworkx(g, find_edge)
            IN  /\ (rx_graph.edges = edges /\ edges # <<>>) => find_edge = rx_graph.find_edge
                /\ workers' = IF next_pc = "parallel"
                              THEN pool_processes(entry, n_jobs, cpu_count) ELSE 0
                /\ graph' = g
                /\ rx_graph' = c.rx_graph
                /\ nx_id_to_rx_idx' = c.nx_id_to_rx_idx
                /\ rx_idx_to_nx_id' = c.rx_idx_to_nx_id
                /\ conserved_land_rx_to_nx' =
                       conserved_land_mapping(conserved_lands, c.nx_id_to_rx_idx)
                /\ sorted_trip_times' = times_sorted
                /\ max_trip_time' = max_of(trip_times)
                /\ results_list' = [i \in 1..origins |-> <<>>]
                /\ pending' = 1..origins
                /\ queued' = 1..NumChunks(origins)
                /\ running' = {}
                /\ failed' = {}
                /\ assigned' = [i \in 1..origins |-> 0]
                /\ pc' = next_pc
                /\ UNCHANGED <<next_center, records, returned, exception>>

\* calculate.py 134-188 with n_jobs = 1
CallSerial ==
    /\ pc = "start"
    /\ entry = "calculate_walk_times"
    /\ n_jobs = 1
    /\ IF graph.edges = <<>>
       THEN Raise("StopIteration", graph)                    \* next(iter(graph.edges(...)))
       ELSE IF max_of(trip_times) = NoneVal
       THEN Raise("ValueError", ensure_time_attributes(graph))    \* max([])
       ELSE Prepare(ensure_time_attributes(graph),
                    serial_sorted_trip_times(trip_times), "serial", 0)
    /\ UNCHANGED <<inputVars, searchVars, utilVars, repeatVars>>

\* a get_lands that uses up the threshold list: each call drops the
\* threshold at its head
GetLandsConsuming ==
    /\ pc = "serial"
    /\ next_center <= Len(center_nodes)
    /\ records' = records \o get_lands(center_nodes[next_center], rx_graph, nx_id_to_rx_idx,
                                       conserved_land_rx_to_nx, sorted_trip_times,
                                       max_trip_time, search_faults)
    /\ next_center' = next_center + 1
    /\ sorted_trip_times' = Tail(sorted_trip_times)
    /\ UNCHANGED <<graph, inputVars, rx_graph, nx_id_to_rx_idx, rx_idx_to_nx_id,
                   conserved_land_rx_to_nx, max_trip_time, pc, results_list, pending,
                   poolVars, returned, exception, searchVars, utilVars, repeatVars>>

\* calculate.py 232-240: get_lands for the next origin of center_nodes
GetLands ==
    /\ pc = "serial"
    /\ next_center <= Len(center_nodes)
    /\ records' = records \o get_lands(center_nodes[next_center], rx_graph, nx_id_to_rx_idx,
                                       conserved_land_rx_to_nx, sorted_trip_times,
                                       max_trip_time, search_faults)
    /\ next_center' = next_center + 1
    /\ UNCHANGED <<graph, inputVars, preparedVars, pc, results_list, pending, poolVars,
                   returned, exception, searchVars, utilVars, repeatVars>>

\* calculate.py 242-245
ReturnSerial ==
    /\ pc = "serial"
    /\ next_center > Len(center_nodes)
    /\ returned' = records
    /\ pc' = "done"
    /\ UNCHANGED <<graph, inputVars, preparedVars, next_center, records, results_list,
                   pending, poolVars, exception, searchVars, utilVars, repeatVars>>

(***************************************************************************)
(* calculate_walk_times_parallel: called by calculate_walk_times when      *)
(* n_jobs # 1 (calculate.py 134-156), or by the caller directly.           *)
(***************************************************************************)
\* calculate.py 134-156 and algorithms.py 156-201
CallParallel ==
    /\ pc = "start"
    /\ entry = "calculate_walk_times_parallel" \/ n_jobs # 1
    /\ IF entry = "calculate_walk_times" /\ graph.edges = <<>>
       THEN Raise("StopIteration", graph)
       ELSE LET g == IF entry = "calculate_walk_times"
                     THEN ensure_time_attributes(graph) ELSE graph
            IN  IF max_of(trip_times) = NoneVal
                THEN Raise("ValueError", g)
                ELSE IF pool_processes(entry, n_jobs, cpu_count) < 1
                THEN Raise("ValueError", g)      \* Pool(processes=0): at least 1
                ELSE Prepare(g, parallel_sorted_trip_times(trip_times), "parallel",
                             Len(center_nodes))
    /\ UNCHANGED <<inputVars, searchVars, utilVars, repeatVars>>

\* algorithms.py 205-213: an idle worker of Pool(processes=n_jobs) takes the
\* next chunk of the task queue
StartTask ==
    /\ pc = "parallel"
    /\ queued # {}
    /\ Cardinality(running) < workers
    /\ LET c == SetMin(queued)
       IN  /\ queued' = queued \ {c}
           /\ running' = running \cup {c}
           /\ assigned' = [i \in DOMAIN assigned |->
                              IF i \in ChunkPositions(c, Len(center_nodes))
                              THEN assigned[i] + 1 ELSE assigned[i]]
    /\ UNCHANGED <<graph, inputVars, preparedVars, pc, next_center, records, results_list,
                   pending, failed, workers, returned, exception, searchVars, utilVars, repeatVars>>

\* a pool that takes the chunk of a raising worker_func for finished, its
\* origins without records
FinishTaskSwallowing ==
    /\ pc = "parallel"
    /\ \E c \in running :
        LET positions == ChunkPositions(c, Len(center_nodes))
        IN  /\ running' = running \ {c}
            /\ pending' = pending \ positions
            /\ results_list' =
                 [i \in DOMAIN results_list |->
                     IF i \in positions /\ positions \cap task_faults = {}
                     THEN process_single_center_node(
                              center_nodes[i], rx_graph, nx_id_to_rx_idx,
                              conserved_land_rx_to_nx, sorted_trip_times,
                              max_trip_time, search_faults)
                     ELSE results_list[i]]
    /\ UNCHANGED <<graph, inputVars, preparedVars, pc, next_center, records, queued,
                   failed, assigned, workers, returned, exception, searchVars, utilVars, repeatVars>>

\* algorithms.py 205-213: a worker finishes its chunk, worker_func applied
\* to each origin of it; the pool puts the results at the origins' positions
\* of results_list, or keeps the exception when worker_func raised
FinishTask ==
    /\ pc = "parallel"
    /\ \E c \in running :
        LET positions == ChunkPositions(c, Len(center_nodes))
        IN  /\ running' = running \ {c}
            /\ IF positions \cap task_faults # {}
               THEN /\ failed' = failed \cup {c}
                    /\ UNCHANGED <<results_list, pending>>
               ELSE /\ failed' = failed
                    /\ results_list' =
                         [i \in DOMAIN results_list |->
                             IF i \in positions
                             THEN process_single_center_node(
                                      center_nodes[i], rx_graph, nx_id_to_rx_idx,
                                      conserved_land_rx_to_nx, sorted_trip_times,
                                      max_trip_time, search_faults)
                             ELSE results_list[i]]
                    /\ pending' = pending \ positions
    /\ UNCHANGED <<graph, inputVars, preparedVars, pc, next_center, records, queued,
                   assigned, workers, returned, exception, searchVars, utilVars, repeatVars>>

\* a parent that flattens results_list as soon as the task queue is empty,
\* without waiting for the chunks the workers still hold
ReturnParallelEarly ==
    /\ pc = "parallel"
    /\ queued = {}
    /\ returned' = Flatten(results_list)
    /\ pc' = "done"
    /\ UNCHANGED <<graph, inputVars, preparedVars, next_center, records, results_list,
                   pending, poolVars, exception, searchVars, utilVars, repeatVars>>

\* algorithms.py 205-229: the parent collects the results.  pool.map hands
\* them over, or raises the first exception, once every chunk has finished;
\* list(pool.imap(...)) takes them in order and raises at the first chunk
\* that failed, the chunks after it finished or not.  Without a failure the
\* results are flattened into the DataFrame.
ReturnParallel ==
    /\ pc = "parallel"
    /\ IF failed = {}
       THEN /\ queued = {}
            /\ running = {}
            /\ returned' = Flatten(results_list)
            /\ pc' = "done"
            /\ UNCHANGED exception
       ELSE /\ IF progress_bar
               THEN \A c \in 1..(SetMin(failed) - 1) : c \notin queued \cup running
               ELSE queued = {} /\ running = {}
            /\ pc' = "raised"
            /\ exception' = "WorkerError"
            /\ UNCHANGED returned
    /\ UNCHANGED <<graph, inputVars, preparedVars, next_center, records, results_list,
                   pending, poolVars, searchVars, utilVars, repeatVars>>

Next ==
    \/ CallSerial
    \/ GetLands
    \/ ReturnSerial
    \/ CallParallel
    \/ StartTask
    \/ FinishTask
    \/ ReturnParallel

Spec == Init /\ [][Next]_vars

(***************************************************************************)
(* The same calls on batches of more than one chunk, with worker_func      *)
(* raising at an origin and with bounded_dijkstra raising for a source.    *)
(***************************************************************************)
MaxPoolOrigins == 21

PoolGraph == [nodes |-> GraphIds, edges |-> EdgePool]

\* the origin lists: a pattern of ids repeated up to the length n
PoolPatterns == { <<11, 12, 99>>, <<12, 11>> }
PoolOrigins(n, pattern) == [i \in 1..n |-> pattern[((i - 1) % Len(pattern)) + 1]]

InitPool ==
    /\ graph = PoolGraph
    /\ \E n \in 0..MaxPoolOrigins :
         /\ \E pattern \in PoolPatterns : center_nodes = PoolOrigins(n, pattern)
         /\ task_faults \in {{}} \cup {{i} : i \in 1..n}
    /\ conserved_lands = <<12, 13>>
    /\ trip_times = <<20, 40>>
    /\ n_jobs \in NJobsChoices
    /\ cpu_count = 4
    /\ progress_bar \in BOOLEAN
    /\ entry \in {"calculate_walk_times", "calculate_walk_times_parallel"}
    /\ search_faults \in {{}, {0}, {1}}
    /\ pc = "start"
    /\ InitCall

SpecPool == InitPool /\ [][Next]_vars

(***************************************************************************)
(* bounded_dijkstra on its own: the search, one loop step per action.      *)
(***************************************************************************)
SearchNodes == {0, 1, 2}
SearchWeights == {0, 10}
SearchBounds == {10}

SearchEdgeChoices == SearchNodes \X SearchNodes \X SearchWeights

\* an index that is no node of the searched graphs.  rustworkx is not part
\* of the sources: successor_indices of such an index either returns no
\* successor or raises, and InitSearch draws which (search_faults)
InvalidIndex == Cardinality(SearchNodes)

InitSearch ==
    /\ graph = [nodes |-> <<>>, edges |-> <<>>]
    /\ center_nodes = <<>>
    /\ conserved_lands = <<>>
    /\ trip_times = <<>>
    /\ n_jobs = 1
    /\ progress_bar = TRUE
    /\ entry = "bounded_dijkstra"
    /\ task_faults = {}
    /\ pc = "search"
    /\ nx_id_to_rx_idx = <<>>
    /\ rx_idx_to_nx_id = <<>>
    /\ conserved_land_rx_to_nx = <<>>
    /\ sorted_trip_times = <<>>
    /\ max_trip_time = NoneVal
    /\ next_center = 1
    /\ records = <<>>
    /\ results_list = <<>>
    /\ pending = {}
    /\ queued = {}
    /\ running = {}
    /\ failed = {}
    /\ assigned = <<>>
    /\ workers = 0
    /\ cpu_count = 4
    /\ first_returned = <<>>
    /\ call_no = 1
    /\ InitUtil
    /\ returned = <<>>
    /\ exception = ""
    /\ \E edges \in SeqsUpTo(SearchEdgeChoices, MaxSearchEdges) :
         \E find_edge \in FindEdgeChoices(edges) :
           rx_graph = [num_nodes |-> Cardinality(SearchNodes), edges |-> edges,
                       find_edge |-> find_edge]
    /\ \/ /\ search_source \in SearchNodes
          /\ search_faults = {}
       \/ /\ search_source = InvalidIndex
          /\ search_faults \in {{}, {InvalidIndex}}
    /\ search_max \in SearchBounds
    /\ search = SearchInit(search_source)
    /\ search_result = <<>>
    /\ expansions = [n \in SearchNodes \cup {InvalidIndex} |-> 0]

pipelineVars == <<graph, inputVars, nx_id_to_rx_idx, rx_idx_to_nx_id,
                  conserved_land_rx_to_nx, sorted_trip_times, max_trip_time, next_center,
                  records, results_list, pending, poolVars, returned, exception,
                  utilVars, repeatVars>>

\* algorithms.py 47-58: one pass through the top of the while loop
SearchPop ==
    /\ pc = "search"
    /\ search.phase = "pop"
    /\ IF search.pq # <<>> /\ search.pq[HeapMinPos(search.pq)][2] \in search_faults
       THEN /\ pc' = "search_raised"        \* line 61 raises, nothing catches it
            /\ UNCHANGED <<search, expansions>>
       ELSE /\ search' = PopStep(rx_graph, search_max, search)
            /\ expansions' = IF search'.expanded = NoneVal THEN expansions
                              ELSE [expansions EXCEPT ![search'.expanded] = @ + 1]
            /\ UNCHANGED pc
    /\ UNCHANGED <<pipelineVars, rx_graph, search_source, search_max, search_result>>

\* algorithms.py 61-73: one iteration of the for loop
SearchRelax ==
    /\ pc = "search"
    /\ search.phase = "relax"
    /\ search' = RelaxStep(rx_graph, search_max, search)
    /\ UNCHANGED <<pipelineVars, pc, rx_graph, search_source, search_max, search_result,
                   expansions>>

\* algorithms.py 78
SearchReturn ==
    /\ pc = "search"
    /\ search.phase = "done"
    /\ search_result' = search.distances
    /\ pc' = "search_returned"
    /\ UNCHANGED <<pipelineVars, rx_graph, search_source, search_max, search, expansions>>

NextSearch ==
    \/ SearchPop
    \/ SearchRelax
    \/ SearchReturn

SpecSearch == InitSearch /\ [][NextSearch]_vars

(***************************************************************************)
(* Reference: the true shortest distances of a weighted multigraph, by     *)
(* Bellman-Ford over every edge (parallel edges included).                 *)
(***************************************************************************)
\* one round: every edge <<a, b, w>> may improve b
RelaxAll(edges, dist) ==
    [b \in DOMAIN dist |->
        SetMin({dist[b]} \cup {Min(dist[edges[k][1]] + edges[k][3], Infinity) :
                                 k \in {j \in 1..Len(edges) : edges[j][2] = b}})]

RECURSIVE RelaxRounds(_, _, _)
RelaxRounds(edges, dist, rounds) ==
    IF rounds = 0 THEN dist ELSE RelaxRounds(edges, RelaxAll(edges, dist), rounds - 1)

\* distance from index source to every index of 0..num_nodes-1 (Infinity: no path)
TrueDistances(num_nodes, edges, source) ==
    RelaxRounds(edges, [b \in 0..(num_nodes - 1) |-> IF b = source THEN 0 ELSE Infinity],
                num_nodes)

(***************************************************************************)
(* Properties of bounded_dijkstra (SpecSearch).                            *)
(***************************************************************************)
SearchTrue == TrueDistances(rx_graph.num_nodes, rx_graph.edges, search_source)

WithinBound == {v \in DOMAIN SearchTrue : SearchTrue[v] <= search_max}

\* the smallest weight among the parallel edges from a to b
MinWeight(edges, a, b) == SetMin({edges[k][3] : k \in EdgesBetween(edges, a, b)})

\* the source argument is an index of a node of the graph
ValidSource == search_source \in 0..(rx_graph.num_nodes - 1)

\* C4: bounded_dijkstra(graph, s, D) returns a map whose keys are exactly the
\* nodes whose true shortest distance from s is <= D, each with that true
\* distance as its value; and no entry, during the search or in the result,
\* belongs to a node whose true distance exceeds D.
C4_BoundedDijkstraExact ==
    /\ (pc \in {"search", "search_returned"} /\ ValidSource) =>
          \A v \in DOMAIN search.distances : SearchTrue[v] <= search_max
    /\ (pc = "search_returned" /\ ValidSource) =>
          /\ DOMAIN search_result = WithinBound
          /\ \A v \in DOMAIN search_result : search_result[v] = SearchTrue[v]

\* C7: with parallel edges from u to v, every one of them is a candidate
\* relaxation edge: once u has been expanded, the distance recorded for v is
\* at most dist(u) plus the smallest weight among the parallel u->v edges.
C7_AllParallelEdgesRelaxed ==
    (pc = "search_returned" /\ ValidSource) =>
        \A p \in ConnectedPairs(rx_graph.edges) :
            (/\ p[1] \in search.visited
             /\ search_result[p[1]] + MinWeight(rx_graph.edges, p[1], p[2]) <= search_max)
            => (/\ p[2] \in DOMAIN search_result
                /\ search_result[p[2]] <=
                     search_result[p[1]] + MinWeight(rx_graph.edges, p[1], p[2]))

(***************************************************************************)
(* Properties of calculate_walk_times (Spec).                              *)
(***************************************************************************)
RecordSet(rows) == Range(rows)

GraphNodeIds == Range(graph.nodes)

\* the indexed multigraph with every edge of the nx graph, whatever find_edge is
AllEdges == nx_to_rustworkx_edges(graph, get_node_mapping(graph).nx_id_to_rx_idx)

\* true shortest-path time between two node ids of the graph
TrueTime(o, t) ==
    LET m == get_node_mapping(graph).nx_id_to_rx_idx
    IN  TrueDistances(Len(graph.nodes), AllEdges, m[o])[m[t]]

\* the positions of the returned rows for the pair (o, t)
RowsOf(rows, o, t) == {i \in 1..Len(rows) : rows[i][1] = o /\ rows[i][2] = t}

\* the smallest threshold of the list the distance d fits
SmallestThreshold(times, d) == SetMin({x \in Range(times) : d <= x})

\* C1: serial path: every (origin, target) pair of graph nodes whose true
\* shortest-path time d is <= max(trip_times) has exactly one returned record,
\* with threshold min{x in trip_times : d <= x}; on the tests' sample graph
\* with thresholds 5, 10, 15 the result is {(1,4,5), (1,3,5)}.
C1_SerialSmallestThreshold ==
    (pc = "done" /\ n_jobs = 1) =>
        /\ \A o \in Range(center_nodes) \cap GraphNodeIds :
             \A t \in Range(conserved_lands) \cap GraphNodeIds :
                TrueTime(o, t) <= max_of(trip_times) =>
                    /\ Cardinality(RowsOf(returned, o, t)) = 1
                    /\ \A i \in RowsOf(returned, o, t) :
                          returned[i][3] = SmallestThreshold(trip_times, TrueTime(o, t))
        /\ graph = SampleGraph => RecordSet(returned) = {<<1, 4, 50>>, <<1, 3, 50>>}

\* the search result the worker of origin position i works from
WorkerDistances(i) ==
    bounded_dijkstra(rx_graph, nx_id_to_rx_idx[center_nodes[i]], max_trip_time)

IsAscending(times) == \A j, k \in 1..Len(times) : j < k => times[j] <= times[k]

\* C2: the parallel worker gets the thresholds in ascending order and, for
\* each target of the target dict that is in the distance map of the bounded
\* search, emits exactly one record (origin, target, t), t the smallest
\* threshold with distance <= t; for the other targets it emits nothing.
C2_WorkerSmallestThreshold ==
    (pc \in {"parallel", "done"} /\ n_jobs # 1) =>
        /\ IsAscending(sorted_trip_times)
        /\ \A i \in (1..Len(center_nodes)) \ pending :
             center_nodes[i] \in DOMAIN nx_id_to_rx_idx =>
                \A k \in 1..Len(conserved_land_rx_to_nx) :
                    LET land_rx_idx == conserved_land_rx_to_nx[k][1]
                        land_nx_id == conserved_land_rx_to_nx[k][2]
                        rows == RowsOf(results_list[i], center_nodes[i], land_nx_id)
                    IN  IF land_rx_idx \in DOMAIN WorkerDistances(i)
                        THEN /\ Cardinality(rows) = 1
                             /\ \A r \in rows :
                                   results_list[i][r][3] =
                                      SmallestThreshold(trip_times,
                                                        WorkerDistances(i)[land_rx_idx])
                        ELSE rows = {}

\* a worker has bucketed a distance equal to a threshold into that
\* threshold, below the largest one, from a list given in descending order
C2_Witness ==
    /\ pc = "parallel"
    /\ n_jobs # 1
    /\ trip_times = <<40, 20>>
    /\ \E i \in (1..Len(center_nodes)) \ pending :
         /\ center_nodes[i] \in DOMAIN nx_id_to_rx_idx
         /\ \E k \in 1..Len(conserved_land_rx_to_nx) :
              /\ conserved_land_rx_to_nx[k][1] \in DOMAIN WorkerDistances(i)
              /\ WorkerDistances(i)[conserved_land_rx_to_nx[k][1]] = 20
              /\ <<center_nodes[i], conserved_land_rx_to_nx[k][2], 20>>
                    \in RecordSet(results_list[i])

\* C3: a pair of graph nodes whose true shortest-path time exceeds
\* max(trip_times) (an unreachable target included) has no returned record,
\* serial and parallel alike.
C3_NoRecordBeyondMax ==
    pc = "done" =>
        \A o \in Range(center_nodes) \cap GraphNodeIds :
            \A t \in Range(conserved_lands) \cap GraphNodeIds :
                TrueTime(o, t) > max_of(trip_times) => RowsOf(returned, o, t) = {}

\* what the serial path and the parallel path return for the thresholds
\* given as the list times, everything else as in the current call
SerialRecords(times) ==
    Flatten([i \in 1..Len(center_nodes) |->
        get_lands(center_nodes[i], rx_graph, nx_id_to_rx_idx, conserved_land_rx_to_nx,
                  serial_sorted_trip_times(times), max_of(times), search_faults)])

ParallelRecords(times) ==
    Flatten([i \in 1..Len(center_nodes) |->
        process_single_center_node(center_nodes[i], rx_graph, nx_id_to_rx_idx,
                                   conserved_land_rx_to_nx,
                                   parallel_sorted_trip_times(times), max_of(times), search_faults)])

\* C5: for identical inputs the serial path (n_jobs = 1) and the parallel
\* path (n_jobs = 2 or 4) return the same set of records.
C5_SerialParallelSameSet ==
    pc = "done" =>
        /\ RecordSet(returned) = RecordSet(SerialRecords(trip_times))
        /\ RecordSet(returned) = RecordSet(ParallelRecords(trip_times))

\* the orderings of a list
Count(s, x) == Cardinality({i \in 1..Len(s) : s[i] = x})
Orderings(s) ==
    {p \in [1..Len(s) -> Range(s)] : \A x \in Range(s) : Count(p, x) = Count(s, x)}

\* C6: whatever the order of trip_times, the returned record set is the one
\* returned for any other ordering of the same thresholds (the ascending one
\* included): the result depends on the thresholds, not on their order.
C6_ThresholdOrderIrrelevant ==
    pc = "done" =>
        \A p \in Orderings(trip_times) :
            RecordSet(returned) =
                RecordSet(IF n_jobs = 1 THEN SerialRecords(p) ELSE ParallelRecords(p))

\* a call given its thresholds out of ascending order has returned records
C6_Witness ==
    /\ pc = "done"
    /\ trip_times = <<40, 20>>
    /\ returned # <<>>
    /\ \E i \in 1..Len(returned) : returned[i][3] = 20

\* C8: no returned record has as land_osmid an id of conserved_lands that is
\* not a node of the graph.
C8_AbsentTargetNoRecord ==
    pc = "done" =>
        \A i \in 1..Len(returned) : returned[i][2] \in GraphNodeIds

\* C9: the returned relation has at most one record per (origin, target) pair.
C9_AtMostOneRecordPerPair ==
    pc = "done" =>
        \A i, j \in 1..Len(returned) :
            (returned[i][1] = returned[j][1] /\ returned[i][2] = returned[j][2]) => i = j

\* center_nodes without the ids that are not nodes of the graph
RECURSIVE PresentOnly(_, _)
PresentOnly(ids, present) ==
    IF ids = <<>> THEN <<>>
    ELSE (IF Head(ids) \in present THEN <<Head(ids)>> ELSE <<>>)
            \o PresentOnly(Tail(ids), present)

RecordsOfOrigins(origins) ==
    Flatten([i \in 1..Len(origins) |->
        IF n_jobs = 1
        THEN get_lands(origins[i], rx_graph, nx_id_to_rx_idx, conserved_land_rx_to_nx,
                       sorted_trip_times, max_trip_time, search_faults)
        ELSE process_single_center_node(origins[i], rx_graph, nx_id_to_rx_idx,
                                        conserved_land_rx_to_nx, sorted_trip_times,
                                        max_trip_time, search_faults)])

\* C10: an origin id that is not a node of the graph contributes no record
\* and does not make the call raise (a call raises only for a graph without
\* edges or an empty threshold list, whatever its origins); the returned
\* records are those of the valid origins of the batch, unchanged.
C10_AbsentOriginSkipped ==
    /\ pc = "raised" => (graph.edges = <<>> \/ trip_times = <<>>)
    /\ pc = "done" =>
          /\ \A i \in 1..Len(returned) : returned[i][1] \in GraphNodeIds
          /\ returned = RecordsOfOrigins(PresentOnly(center_nodes, GraphNodeIds))

\* a batch with an absent origin ahead of a valid one has returned the valid
\* origin's records
C10_Witness ==
    /\ pc = "done"
    /\ Len(center_nodes) = 2
    /\ center_nodes[1] \notin GraphNodeIds
    /\ center_nodes[2] \in GraphNodeIds
    /\ returned # <<>>

(***************************************************************************)
(* Batches without a valid origin.                                         *)
(***************************************************************************)
NoValidOrigin == \A i \in 1..Len(center_nodes) : center_nodes[i] \notin GraphNodeIds

ParallelPath == entry = "calculate_walk_times_parallel" \/ n_jobs # 1

\* worker_func applied to the origin at position i
WorkerRecords(i) ==
    process_single_center_node(center_nodes[i], rx_graph, nx_id_to_rx_idx,
                               conserved_land_rx_to_nx, sorted_trip_times,
                               max_trip_time, search_faults)

\* the per-origin record lists, one after the other
AllWorkerRecords == Flatten([i \in 1..Len(center_nodes) |-> WorkerRecords(i)])

\* C12: what calculate_walk_times_parallel returns is, as a multiset, the
\* union of the per-origin record lists: every record as often as the
\* per-origin lists hold it, whatever the order in which the workers took
\* and finished the chunks and whatever n_jobs.
C12_MergeIsUnionOfOrigins ==
    (ParallelPath /\ pc = "done") =>
        /\ Len(returned) = Len(AllWorkerRecords)
        /\ \A r \in Range(returned) \cup Range(AllWorkerRecords) :
               Count(returned, r) = Count(AllWorkerRecords, r)

\* a batch of three chunks has been merged by a pool of two workers, with
\* records of more than one origin
C12_Witness ==
    /\ ParallelPath
    /\ pc = "done"
    /\ n_jobs = 2
    /\ Len(center_nodes) > 2 * ChunkSize
    /\ \E i, j \in 1..Len(returned) : returned[i][1] # returned[j][1]

\* C13: every position of center_nodes is given to exactly one pool task:
\* never to a second one, and a call that has returned has given every
\* position to one and holds its result, for any n_jobs and any number of
\* origins.
C13_EachOriginInOneTask ==
    (ParallelPath /\ pc \in {"parallel", "done", "raised"} /\ max_trip_time # NoneVal) =>
        /\ DOMAIN assigned = 1..Len(center_nodes)
        /\ \A i \in DOMAIN assigned : assigned[i] <= 1
        /\ queued = {} => \A i \in DOMAIN assigned : assigned[i] = 1
        /\ pc = "done" => pending = {} /\ \A i \in DOMAIN assigned : assigned[i] = 1

\* a batch whose length is no multiple of the chunk size, of fewer chunks
\* than the pool has workers, has been processed to the end
C13_Witness ==
    /\ ParallelPath
    /\ pc = "done"
    /\ Len(center_nodes) > ChunkSize
    /\ Len(center_nodes) % ChunkSize # 0
    /\ NumChunks(Len(center_nodes)) < n_jobs
    /\ \A i \in DOMAIN assigned : assigned[i] = 1

\* C14: when worker_func raises in a pool task, the call does not return a
\* relation: it never reaches its return, the exception it ends with is the
\* worker's, and nothing of the tasks that completed is handed back.
C14_WorkerErrorFailsBatch ==
    /\ (ParallelPath /\ task_faults # {}) => pc # "done"
    /\ failed # {} => returned = <<>>
    /\ exception = "WorkerError" => (failed # {} /\ returned = <<>> /\ pc = "raised")

\* the call has raised the worker's exception although another task had
\* completed with records
C14_Witness ==
    /\ pc = "raised"
    /\ exception = "WorkerError"
    /\ \E i \in (1..Len(center_nodes)) \ pending : results_list[i] # <<>>
    /\ returned = <<>>

(***************************************************************************)
(* What the searches leave alone.                                          *)
(***************************************************************************)
\* a step that writes none of the values the searches share
SharedStateUnchanged ==
    /\ UNCHANGED preparedVars
    /\ UNCHANGED graph
    /\ UNCHANGED <<center_nodes, conserved_lands, trip_times>>

\* C15: once built, the converted graph, the two id/index maps, the target
\* dict and the sorted threshold list (with its maximum) are the same after
\* every step of the call as before it, and so is the caller's graph: a
\* per-origin search, serial or in a pool task, writes none of them.
C15_SharedStateReadOnly ==
    [][(pc \in {"serial", "parallel"}) => SharedStateUnchanged]_vars

\* two origins have been searched, with records, over a graph with edges
C15_Witness ==
    /\ pc = "done"
    /\ Len(center_nodes) = 2
    /\ rx_graph.edges # <<>>
    /\ conserved_land_rx_to_nx # <<>>
    /\ \E i, j \in 1..Len(returned) : returned[i][1] # returned[j][1]

(***************************************************************************)
(* A search that fails.                                                    *)
(***************************************************************************)
\* the ids of the origins whose bounded search raises
FaultedIds == {id \in DOMAIN nx_id_to_rx_idx : nx_id_to_rx_idx[id] \in search_faults}

\* the records of one origin when no search fails
FaultFreeRecords(center_node) ==
    IF ParallelPath
    THEN process_single_center_node(center_node, rx_graph, nx_id_to_rx_idx,
                                    conserved_land_rx_to_nx, sorted_trip_times,
                                    max_trip_time, {})
    ELSE get_lands(center_node, rx_graph, nx_id_to_rx_idx, conserved_land_rx_to_nx,
                   sorted_trip_times, max_trip_time, {})

\* C16: an origin whose bounded search raises contributes no record, and
\* the other origins of the batch contribute what they contribute when no
\* search fails; a failing search makes neither path raise.
C16_FailedSearchSkipsOrigin ==
    /\ pc = "done" =>
          /\ \A i \in 1..Len(returned) : returned[i][1] \notin FaultedIds
          /\ returned = Flatten([i \in 1..Len(center_nodes) |->
                                    IF center_nodes[i] \in FaultedIds THEN <<>>
                                    ELSE FaultFreeRecords(center_nodes[i])])
    /\ (pc = "raised" /\ task_faults = {}) => (graph.edges = <<>> \/ trip_times = <<>>)

\* a batch with an origin whose search raises has returned the records of
\* another origin
C16_Witness ==
    /\ pc = "done"
    /\ search_faults # {}
    /\ \E i \in 1..Len(center_nodes) : center_nodes[i] \in FaultedIds
    /\ returned # <<>>

(***************************************************************************)
(* bounded_dijkstra with a source that is no node.                         *)
(***************************************************************************)
\* C17: bounded_dijkstra called with a source that is not an index of the
\* graph returns the empty map: it does not end with an exception and the
\* map it returns has no entry.
C17_InvalidSourceEmptyMap ==
    (pc \in {"search_returned", "search_raised"} /\ ~ValidSource) =>
        /\ pc = "search_returned"
        /\ DOMAIN search_result = {}

(***************************************************************************)
(* Empty graph, empty threshold list.                                      *)
(***************************************************************************)
\* no origin has been searched or handed to the pool
NoSearchStarted ==
    /\ next_center = 1
    /\ records = <<>>
    /\ running = {}
    /\ failed = {}
    /\ \A i \in DOMAIN assigned : assigned[i] = 0
    /\ \A i \in DOMAIN results_list : results_list[i] = <<>>

Converted == pc \in {"serial", "parallel", "done"}

\* C19: the N node ids of the graph get the indices 0..N-1 in iteration
\* order (the k-th id gets k-1), the same from get_node_mapping alone and
\* from nx_to_rustworkx, and the forward and the reverse map are bijections
\* that are inverse to each other.
C19_DenseIndexBijection ==
    Converted =>
        LET N == Len(graph.nodes)
            m == get_node_mapping(graph)
        IN  /\ m.nx_id_to_rx_idx = nx_id_to_rx_idx
            /\ m.rx_idx_to_nx_id = rx_idx_to_nx_id
            /\ DOMAIN nx_id_to_rx_idx = Range(graph.nodes)
            /\ DOMAIN rx_idx_to_nx_id = 0..(N - 1)
            /\ \A k \in 1..N : nx_id_to_rx_idx[graph.nodes[k]] = k - 1
            /\ \A id \in DOMAIN nx_id_to_rx_idx :
                   /\ nx_id_to_rx_idx[id] \in DOMAIN rx_idx_to_nx_id
                   /\ rx_idx_to_nx_id[nx_id_to_rx_idx[id]] = id
            /\ \A idx \in DOMAIN rx_idx_to_nx_id :
                   /\ rx_idx_to_nx_id[idx] \in DOMAIN nx_id_to_rx_idx
                   /\ nx_id_to_rx_idx[rx_idx_to_nx_id[idx]] = idx

\* a graph whose ids are not in increasing order has been converted: the
\* first id, the larger one, has index 0
C19_Witness ==
    /\ Converted
    /\ Len(graph.nodes) = 3
    /\ graph.nodes[1] > graph.nodes[2]
    /\ nx_id_to_rx_idx[graph.nodes[1]] = 0
    /\ rx_idx_to_nx_id[2] = graph.nodes[3]

\* the nx edges from u to v, and those of them with time w
NxEdges(u, v) == {k \in 1..Len(graph.edges) : graph.edges[k].u = u /\ graph.edges[k].v = v}
NxEdgesTimed(u, v, w) == {k \in NxEdges(u, v) : graph.edges[k].time = w}

\* the rx edges from a to b with weight w
RxEdgesWeighted(a, b, w) ==
    {k \in EdgesBetween(rx_graph.edges, a, b) : rx_graph.edges[k][3] = w}

\* C20: the converted graph has the nodes and the edges of the nx graph,
\* count for count: for every ordered pair of nodes as many edges as the nx
\* graph has, parallel edges included, and, where the edges carry a time,
\* as many of each weight.
C20_EdgesPreserved ==
    Converted =>
        /\ rx_graph.num_nodes = Len(graph.nodes)
        /\ Len(rx_graph.edges) = Len(graph.edges)
        /\ \A u, v \in Range(graph.nodes) :
              LET a == nx_id_to_rx_idx[u]
                  b == nx_id_to_rx_idx[v]
              IN  /\ Cardinality(EdgesBetween(rx_graph.edges, a, b))
                        = Cardinality(NxEdges(u, v))
                  /\ (\A k \in NxEdges(u, v) : graph.edges[k].time # NoneVal) =>
                        \A w \in {graph.edges[k].time : k \in NxEdges(u, v)}
                                 \cup {rx_graph.edges[k][3] : k \in EdgesBetween(rx_graph.edges, a, b)} :
                            Cardinality(RxEdgesWeighted(a, b, w))
                                = Cardinality(NxEdgesTimed(u, v, w))

\* a graph with two parallel edges of different times has been converted
C20_Witness ==
    /\ Converted
    /\ \E u, v \in Range(graph.nodes) :
          /\ Cardinality(NxEdges(u, v)) = 2
          /\ Cardinality({graph.edges[k].time : k \in NxEdges(u, v)}) = 2
          /\ Cardinality(EdgesBetween(rx_graph.edges, nx_id_to_rx_idx[u],
                                      nx_id_to_rx_idx[v])) = 2

(***************************************************************************)
(* The graph utilities called on their own: nx_to_rustworkx,               *)
(* add_time_attributes, convert_node_ids_to_rx_indices.                    *)
(***************************************************************************)
MaxUtilEdges == 2

\* edges with and without a time, with and without a length
UtilEdgeChoices ==
    {Edge(p[1], p[2], t, l) : p \in {<<11, 12>>, <<12, 13>>},
                              t \in {NoneVal, 10}, l \in {NoneVal, 0, 75}}

UtilGraphs ==
    {[nodes |-> GraphIds, edges |-> edges] : edges \in SeqsUpTo(UtilEdgeChoices, MaxUtilEdges)}

UtilSpeeds == {TravelSpeed, 3000}

InitUtilCall ==
    /\ \/ /\ graph \in UtilGraphs
          /\ conserved_lands = <<>>
       \/ /\ graph = PoolGraph
          /\ conserved_lands \in SeqsUpTo(LandIds, MaxLands)
    /\ center_nodes = <<>>
    /\ trip_times = <<>>
    /\ n_jobs = 1
    /\ cpu_count = 4
    /\ progress_bar = TRUE
    /\ entry = "utility"
    /\ task_faults = {}
    /\ search_faults = {}
    /\ pc = "util"
    /\ InitCall

utilFrame == <<inputVars, preparedVars, next_center, records, results_list, pending,
               poolVars, returned, exception, searchVars, repeatVars, cache, first_graph>>

\* graph_utils.py 31-82: nx_to_rustworkx(graph, weight_attr="time")
CallNxToRustworkx ==
    /\ pc = "util"
    /\ \E find_edge \in FindEdgeChoices(
                            nx_to_rustworkx_edges(graph, get_node_mapping(graph).nx_id_to_rx_idx)) :
          call' = [op |-> "nx_to_rustworkx",
                   result |-> nx_to_rustworkx(graph, find_edge),
                   edges_skipped |-> edges_skipped(graph)]
    /\ conversions' = conversions + 1
    /\ pc' = "util_returned"
    /\ UNCHANGED <<graph, utilFrame>>

\* calculate.py 78-98: add_time_attributes(graph, travel_speed), in place
CallAddTimeAttributes ==
    /\ pc = "util"
    /\ \E travel_speed \in UtilSpeeds :
          /\ graph' = add_time_attributes(graph, travel_speed)
          /\ call' = [op |-> "add_time_attributes", graph |-> graph,
                      travel_speed |-> travel_speed]
    /\ pc' = "util_returned"
    /\ UNCHANGED <<conversions, utilFrame>>

\* graph_utils.py 85-110: convert_node_ids_to_rx_indices(node_ids, map)
CallConvertNodeIds ==
    /\ pc = "util"
    /\ LET map == get_node_mapping(graph).nx_id_to_rx_idx
       IN  call' = [op |-> "convert_node_ids_to_rx_indices",
                    node_ids |-> conserved_lands,
                    map |-> map,
                    result |-> convert_node_ids_to_rx_indices(conserved_lands, map)]
    /\ pc' = "util_returned"
    /\ UNCHANGED <<graph, conversions, utilFrame>>

NextUtil ==
    \/ CallNxToRustworkx
    \/ CallAddTimeAttributes
    \/ CallConvertNodeIds

SpecUtil == InitUtilCall /\ [][NextUtil]_vars

(***************************************************************************)
(* Edges without a time weight.                                            *)
(***************************************************************************)
Untimed == {k \in 1..Len(graph.edges) : graph.edges[k].time = NoneVal}

\* C21: nx_to_rustworkx returns (it does not raise) with one edge per edge
\* of the graph, between the same nodes; an edge without a time has
\* default_weight as its weight, an edge with a time has that time, and the
\* counter of defaulted edges ends at the number of edges without a time.
C21_MissingWeightDefaulted ==
    (pc = "util_returned" /\ call.op = "nx_to_rustworkx") =>
        LET rx == call.result.rx_graph.edges
            idx == call.result.nx_id_to_rx_idx
        IN  /\ Len(rx) = Len(graph.edges)
            /\ \A k \in 1..Len(graph.edges) :
                  /\ rx[k][1] = idx[graph.edges[k].u]
                  /\ rx[k][2] = idx[graph.edges[k].v]
                  /\ k \in Untimed => rx[k][3] = DefaultWeight
                  /\ k \notin Untimed => rx[k][3] = graph.edges[k].time
            /\ call.edges_skipped = Cardinality(Untimed)

\* a graph with an edge without a time next to one with a time has been
\* converted
C21_Witness ==
    /\ pc = "util_returned"
    /\ call.op = "nx_to_rustworkx"
    /\ Cardinality(Untimed) = 1
    /\ Len(graph.edges) = 2
    /\ call.edges_skipped = 1

(***************************************************************************)
(* calculate.py: get_rustworkx_graph and the module's _rx_graph_cache.     *)
(***************************************************************************)
MaxCacheCalls == 3

\* cache_key=None
NoKey == "<None>"

\* the keys the calls are made with: none, the empty string, two names
KeyChoices == {NoKey, "", "a", "b"}

\* "if cache_key": None and the empty string are false
Truthy(cache_key) == cache_key # NoKey /\ cache_key # ""

CacheGraphs == {PoolGraph, [nodes |-> GraphIds, edges |-> <<EdgePool[3]>>], SampleGraph}

\* a lookup that never answers from the cache
get_rustworkx_graph_uncached(store, nx_graph, cache_key, find_edge) ==
    LET c == nx_to_rustworkx(nx_graph, find_edge)
    IN  [result |-> c,
         cache |-> IF Truthy(cache_key) THEN DictSet(store, cache_key, c) ELSE store,
         converted |-> TRUE]

\* a lookup by key and graph: an entry built from another graph is rebuilt
\* and replaced
get_rustworkx_graph_by_graph(store, nx_graph, cache_key, find_edge) ==
    LET c == nx_to_rustworkx(nx_graph, find_edge)
    IN  IF /\ Truthy(cache_key)
           /\ cache_key \in DOMAIN store
           /\ store[cache_key].rx_idx_to_nx_id = c.rx_idx_to_nx_id
           /\ store[cache_key].rx_graph.edges = c.rx_graph.edges
        THEN [result |-> store[cache_key], cache |-> store, converted |-> FALSE]
        ELSE [result |-> c,
              cache |-> IF Truthy(cache_key) THEN DictSet(store, cache_key, c) ELSE store,
              converted |-> TRUE]

\* get_rustworkx_graph(nx_graph, cache_key) on the cache store: what it
\* returns, the cache after it, and whether nx_to_rustworkx has run
get_rustworkx_graph(store, nx_graph, cache_key, find_edge) ==
    IF Truthy(cache_key) /\ cache_key \in DOMAIN store
    THEN [result |-> store[cache_key], cache |-> store, converted |-> FALSE]
    ELSE LET c == nx_to_rustworkx(nx_graph, find_edge)
         IN  [result |-> c,
              cache |-> IF Truthy(cache_key) THEN DictSet(store, cache_key, c) ELSE store,
              converted |-> TRUE]

InitCache ==
    /\ graph = EmptyGraph
    /\ conserved_lands = <<>>
    /\ center_nodes = <<>>
    /\ trip_times = <<>>
    /\ n_jobs = 1
    /\ cpu_count = 4
    /\ progress_bar = TRUE
    /\ entry = "get_rustworkx_graph"
    /\ task_faults = {}
    /\ search_faults = {}
    /\ pc = "cache"
    /\ InitCall

\* one call get_rustworkx_graph(g, cache_key=key), key possibly None
CallGetRustworkxGraph ==
    /\ pc = "cache"
    /\ call.n < MaxCacheCalls
    /\ \E g \in CacheGraphs, key \in KeyChoices :
        \E find_edge \in FindEdgeChoices(
                             nx_to_rustworkx_edges(g, get_node_mapping(g).nx_id_to_rx_idx)) :
            LET r == get_rustworkx_graph(cache, g, key, find_edge)
            IN  /\ cache' = r.cache
                /\ conversions' = IF r.converted THEN conversions + 1 ELSE conversions
                /\ first_graph' = IF key = NoKey \/ key \in DOMAIN first_graph
                                  THEN first_graph ELSE DictSet(first_graph, key, g)
                /\ call' = [op |-> "get_rustworkx_graph",
                            n |-> call.n + 1,
                            graph |-> g,
                            cache_key |-> key,
                            result |-> r.result,
                            converted |-> r.converted,
                            seen_before |-> key \in DOMAIN first_graph,
                            cache_before |-> cache]
    /\ UNCHANGED <<graph, inputVars, preparedVars, pc, next_center, records, results_list,
                   pending, poolVars, returned, exception, searchVars, repeatVars>>

NextCache == CallGetRustworkxGraph

SpecCache == InitCache /\ [][NextCache]_vars

CacheCall == call.op = "get_rustworkx_graph"

\* C22 as the specification states it: a call with a key that an earlier
\* call was made with returns the stored structures without converting
\* again, whatever the key; a call without a key converts and leaves the
\* cache as it was.
C22_RepeatedKeyNotRebuilt ==
    CacheCall =>
        /\ (call.cache_key # NoKey /\ call.seen_before) =>
              /\ ~call.converted
              /\ call.result = cache[call.cache_key]
        /\ call.cache_key = NoKey => (call.converted /\ cache = call.cache_before)

\* C22: a call with a non-empty key that an earlier call was made with
\* returns the stored structures without converting again and leaves the
\* cache as it was; a call without a key, or with the empty string as its
\* key, converts and neither reads nor writes the cache.
C22_RepeatedNonEmptyKeyNotRebuilt ==
    CacheCall =>
        /\ (Truthy(call.cache_key) /\ call.seen_before) =>
              /\ ~call.converted
              /\ call.result = call.cache_before[call.cache_key]
              /\ cache = call.cache_before
        /\ ~Truthy(call.cache_key) =>
              /\ call.converted
              /\ cache = call.cache_before
              /\ call.result.rx_idx_to_nx_id = get_node_mapping(call.graph).rx_idx_to_nx_id

\* the third call is the second one with key "a", after a call without key
C22_Witness ==
    /\ CacheCall
    /\ call.n = 3
    /\ call.cache_key = "a"
    /\ call.seen_before
    /\ conversions = 2
    /\ DOMAIN cache = {"a"}

\* C30: the cache is looked up by key alone.  Every entry is the conversion
\* of the graph of the first call made with its key, whatever graphs the
\* later calls with that key came with: no entry is replaced and none is
\* removed; and a call with a stored key returns that entry.
C30_CacheKeyedByKeyOnly ==
    /\ DOMAIN cache = {k \in DOMAIN first_graph : Truthy(k)}
    /\ \A k \in DOMAIN cache :
          /\ cache[k].rx_idx_to_nx_id = get_node_mapping(first_graph[k]).rx_idx_to_nx_id
          /\ cache[k].rx_graph.edges =
                 nx_to_rustworkx_edges(first_graph[k],
                                       get_node_mapping(first_graph[k]).nx_id_to_rx_idx)
    /\ (CacheCall /\ Truthy(call.cache_key)) => call.result = cache[call.cache_key]

\* a call with a stored key and another graph has returned the structures
\* of the first graph
C30_Witness ==
    /\ CacheCall
    /\ Truthy(call.cache_key)
    /\ call.seen_before
    /\ Len(call.graph.nodes) # Len(first_graph[call.cache_key].nodes)
    /\ call.result.rx_graph.num_nodes = Len(first_graph[call.cache_key].nodes)

(***************************************************************************)
(* The worker count: calculate_walk_times and calculate_walk_times_parallel *)
(* called with the counts 0, 1, 2, -1 and None on machines of 1, 2 and 8   *)
(* CPUs, for batches of up to MaxWorkerOrigins origins.                    *)
(***************************************************************************)
MaxWorkerOrigins == 3

\* n_jobs as a caller may pass it: 0, 1, 2, -1 (all CPUs) or None
WorkerCounts == {0, 1, 2, 0 - 1, NJobsNone}

\* the values of multiprocessing.cpu_count()
CpuCounts == {1, 2, 8}

InitWorkers ==
    /\ graph = PoolGraph
    /\ \E n \in 0..MaxWorkerOrigins :
         \E pattern \in PoolPatterns : center_nodes = PoolOrigins(n, pattern)
    /\ conserved_lands = <<12, 13>>
    /\ trip_times = <<20, 40>>
    /\ n_jobs \in WorkerCounts
    /\ cpu_count \in CpuCounts
    /\ progress_bar \in BOOLEAN
    /\ entry \in {"calculate_walk_times", "calculate_walk_times_parallel"}
    /\ task_faults = {}
    /\ search_faults = {}
    /\ pc = "start"
    /\ InitCall

SpecWorkers == InitWorkers /\ [][Next]_vars

\* C23: calculate_walk_times called with a worker count of 0 or of 1 runs
\* the serial path: it starts no pool process, it raises nothing that the
\* serial path does not raise, and what it returns is the serial result.
C23_ZeroOrOneWorkerIsSerial ==
    (entry = "calculate_walk_times" /\ n_jobs \in {0, 1}) =>
        /\ workers = 0
        /\ pc # "parallel"
        /\ pc = "raised" => (graph.edges = <<>> \/ trip_times = <<>>)
        /\ pc = "done" => returned = SerialRecords(trip_times)

\* C24: when no worker count is given, the pool of
\* calculate_walk_times_parallel has no more processes than there are
\* origins to process.
C24_DefaultWorkersCappedByOrigins ==
    (n_jobs = NJobsNone /\ pc \in {"parallel", "done"}) =>
        workers <= Len(center_nodes)

(***************************************************************************)
(* calculate_walk_times called again by the same caller on the arguments   *)
(* of the first call: the graph object is the one the first call was       *)
(* given, with whatever the first call wrote into it.                      *)
(***************************************************************************)
MaxCalls == 2

\* edge attributes of the graphs called twice: a time that no length gives,
\* or none; a length of 75 m (1.0 minute at 4.5 km/h), or none
TwiceTimes == {NoneVal, 30}
TwiceLengths == {NoneVal, 75}

TwiceEdgeChoices(u, v) ==
    {<<>>} \cup {<<Edge(u, v, t, l)>> : t \in TwiceTimes, l \in TwiceLengths}

\* up to two parallel edges 11 -> 12 and an edge 12 -> 13
TwiceGraphs ==
    {[nodes |-> GraphIds, edges |-> a \o b \o c] :
        a \in TwiceEdgeChoices(11, 12), b \in TwiceEdgeChoices(11, 12),
        c \in TwiceEdgeChoices(12, 13)}

InitTwice ==
    /\ graph \in TwiceGraphs
    /\ center_nodes \in {<<11>>, <<11, 12>>, <<99, 11>>}
    /\ conserved_lands = <<12, 13>>
    /\ trip_times \in {<<20, 40>>, <<40>>}
    /\ n_jobs = 1
    /\ cpu_count = 4
    /\ progress_bar = TRUE
    /\ entry = "calculate_walk_times"
    /\ task_faults = {}
    /\ search_faults = {}
    /\ pc = "start"
    /\ InitCall

\* the caller keeps what the call returned and calls again: the arguments
\* are the same objects, the locals of the finished call are gone
CallAgain ==
    /\ pc = "done"
    /\ call_no < MaxCalls
    /\ first_returned' = IF call_no = 1 THEN returned ELSE first_returned
    /\ call_no' = call_no + 1
    /\ pc' = "start"
    /\ next_center' = 1
    /\ records' = <<>>
    /\ returned' = <<>>
    /\ UNCHANGED <<graph, inputVars, preparedVars, results_list, pending, poolVars,
                   exception, searchVars, utilVars>>

NextTwice ==
    \/ CallSerial
    \/ GetLands
    \/ ReturnSerial
    \/ CallAgain

SpecTwice == InitTwice /\ [][NextTwice]_vars

\* C25: a later serial call of calculate_walk_times on the inputs of the
\* first call returns the record set the first call returned, whatever
\* the first call left in the graph.
C25_SecondSerialCallSameRecords ==
    (call_no >= 2 /\ pc = "done") => RecordSet(returned) = RecordSet(first_returned)

\* a second call has returned records for a graph whose first edge got its
\* time from the first call (1.0 minute for 75 m: no input edge has it)
C25_Witness ==
    /\ call_no >= 2
    /\ pc = "done"
    /\ returned # <<>>
    /\ graph.edges[1].time = 10
    /\ \E k \in 1..Len(graph.edges) : graph.edges[k].time = 30

(***************************************************************************)
(* Claims about add_time_attributes and convert_node_ids_to_rx_indices,    *)
(* under SpecUtil: call.graph is the graph before the call, graph after.   *)
(***************************************************************************)
AddTimeCalled == call.op = "add_time_attributes"

\* t is length / (travel_speed * 1000 / 60) in tenths of a minute
IsWalkTime(t, length, travel_speed) ==
    /\ t * travel_speed <= length * 600
    /\ length * 600 < (t + 1) * travel_speed

\* edge k has the endpoints and the length it had before the call
OtherAttributesKept(k) ==
    /\ graph.edges[k].u = call.graph.edges[k].u
    /\ graph.edges[k].v = call.graph.edges[k].v
    /\ graph.edges[k].length = call.graph.edges[k].length

\* C26 as stated: after add_time_attributes every edge carries a time, the
\* walking time of its length, positive for a positive length, and nothing
\* else of the edge has changed.
C26_EveryEdgeTimed ==
    AddTimeCalled =>
        /\ graph.nodes = call.graph.nodes
        /\ Len(graph.edges) = Len(call.graph.edges)
        /\ \A k \in 1..Len(graph.edges) :
              /\ OtherAttributesKept(k)
              /\ graph.edges[k].time # NoneVal
              /\ IsWalkTime(graph.edges[k].time, graph.edges[k].length, call.travel_speed)
              /\ graph.edges[k].length > 0 => graph.edges[k].time > 0

\* C26, amended: after add_time_attributes every edge that has a length
\* carries the walking time of that length, positive for a positive
\* length; an edge without a length is left with the time attribute it
\* had, or without one; endpoints and lengths are unchanged.
C26_EdgesWithLengthTimed ==
    AddTimeCalled =>
        /\ graph.nodes = call.graph.nodes
        /\ Len(graph.edges) = Len(call.graph.edges)
        /\ \A k \in 1..Len(graph.edges) :
              /\ OtherAttributesKept(k)
              /\ IF call.graph.edges[k].length # NoneVal
                 THEN /\ graph.edges[k].time # NoneVal
                      /\ IsWalkTime(graph.edges[k].time, graph.edges[k].length,
                                    call.travel_speed)
                      /\ graph.edges[k].length > 0 => graph.edges[k].time > 0
                 ELSE graph.edges[k].time = call.graph.edges[k].time

\* the call was made on a graph with an edge of 75 m that had a time
\* already and an edge without a length and without a time
C26_Witness ==
    /\ AddTimeCalled
    /\ \E k \in 1..Len(graph.edges) :
          /\ call.graph.edges[k].length = 75
          /\ call.graph.edges[k].time # NoneVal
    /\ \E k \in 1..Len(graph.edges) :
          /\ call.graph.edges[k].length = NoneVal
          /\ graph.edges[k].time = NoneVal

ConvertCalled == call.op = "convert_node_ids_to_rx_indices"

\* the ids of node_ids that are keys of the map, in the order of node_ids
FoundIds(node_ids, map) == SelectSeq(node_ids, LAMBDA id : id \in DOMAIN map)

\* C27: convert_node_ids_to_rx_indices returns, in input order, the
\* indices of exactly the input ids that are keys of the map; an id that
\* is not a key is skipped, nothing is put in its place, and the output
\* is as long as the number of ids found.
C27_IndicesOfFoundIdsInOrder ==
    ConvertCalled =>
        LET found == FoundIds(call.node_ids, call.map)
        IN  /\ Len(call.result) = Len(found)
            /\ \A i \in 1..Len(found) : call.result[i] = call.map[found[i]]
            /\ Range(call.result) \subseteq {call.map[id] : id \in DOMAIN call.map}

\* a call whose input has an id that is no key between two ids that are
C27_Witness ==
    /\ ConvertCalled
    /\ \E i, j, k \in 1..Len(call.node_ids) :
          /\ i < j /\ j < k
          /\ call.node_ids[i] \in DOMAIN call.map
          /\ call.node_ids[j] \notin DOMAIN call.map
          /\ call.node_ids[k] \in DOMAIN call.map
          /\ call.node_ids[i] # call.node_ids[k]
    /\ Len(call.result) = 2

(***************************************************************************)
(* The order of expansion and the termination of bounded_dijkstra          *)
(* (SpecSearch, SpecSearchFair).                                           *)
(***************************************************************************)
\* C28: in bounded_dijkstra with non-negative weights the entries are
\* expanded in non-decreasing order of distance (no queue entry lies below
\* the distance of the entry expanded last), the distance of an expanded
\* node is its true shortest distance from then on, and when the loop has
\* stopped no node within max_distance is missing from the map.
C28_ExpandedDistancesFinal ==
    (pc \in {"search", "search_returned"} /\ ValidSource) =>
        /\ \A i \in 1..Len(search.pq) : search.pq[i][1] >= search.current_dist
        /\ \A n \in search.visited :
              /\ n \in DOMAIN search.distances
              /\ search.distances[n] = SearchTrue[n]
        /\ search.phase = "done" => WithinBound \subseteq DOMAIN search.distances

\* the loop of bounded_dijkstra is one thread of control: a step that can
\* be taken is taken
SpecSearchFair == InitSearch /\ [][NextSearch]_vars /\ WF_vars(NextSearch)

\* C29: bounded_dijkstra returns on every graph of the bounded family
\* (cycles, zero-weight edges, self-loops and parallel edges included) for
\* a source of the graph, and in no search are the successors of a node
\* read more than once.
C29_SearchTerminates ==
    /\ ValidSource => <>(pc = "search_returned")
    /\ [](\A n \in DOMAIN expansions : expansions[n] <= 1)

\* a search has returned on a graph with a zero-weight cycle through the
\* source and a self-loop, after expanding both nodes of the cycle
C29_Witness ==
    /\ pc = "search_returned"
    /\ \E a, b \in SearchNodes :
          /\ a # b
          /\ search_source = a
          /\ \E i, j, k \in 1..Len(rx_graph.edges) :
                /\ rx_graph.edges[i] = <<a, b, 0>>
                /\ rx_graph.edges[j] = <<b, a, 0>>
                /\ rx_graph.edges[k][1] = rx_graph.edges[k][2]
          /\ expansions[a] = 1
          /\ expansions[b] = 1

====
